---- MODULE Spec2Model ----
\* Confluence and JIRA tool functions of deepagents_cli
\* (jira_tools.py, confluence_tools.py) as a state machine: every public tool
\* function is one action; the HTTP transport and the remote servers are the
\* environment, whose answers are drawn nondeterministically.
EXTENDS Integers, Sequences, FiniteSets, TLC

\* ---------------------------------------------------------------- bounds
\* most trailing "/" characters on a base URL handed to configure
MaxSlashes == 1
\* most optional fields supplied to one jira_update_issue call
MaxSupplied == 1
\* most transitions in one remote transition listing
MaxTransitions == 2
\* most pieces joined into one search query
MaxAtoms == 2
\* most pieces joined into one HTML text
MaxPieces == 4
\* the count of serverInfo requests stops at this value
MaxProbes == 3

\* ---------------------------------------------------------------- values
\* Python's None for scalar values, and for character sequences
None == "None"
NoneSeq == <<"None">>

\* strings that the code inspects are sequences of one-character strings
Slashes(k) == [i \in 1..k |-> "/"]
Hosts == {<<"a">>, <<"b">>}
Urls == {h \o Slashes(k) : h \in Hosts, k \in 0..MaxSlashes}
Users == {"u1", "u2"}
Passwords == {"p1", "p2"}

IssueKey == "PROJ-1"
PageId == "123"

\* ---------------------------------------------------------------- state
VARIABLES
    settings,      \* deepagents_cli.config.settings (the fields the tools use)
    api_version,   \* jira_tools._api_version
    call,          \* the last tool invocation: arguments, requests, outcome
    probes         \* history: serverInfo requests handed to the transport
                   \* since the last jira_configure call (or since the start)
vars == <<settings, api_version, call, probes>>

\* faulty variant of rstrip: trailing slashes are kept
rstrip_keeps(s) == s

\* str.rstrip("/")
RECURSIVE rstrip(_)
rstrip(s) ==
    IF Len(s) > 0 /\ s[Len(s)] = "/" THEN rstrip(SubSeq(s, 1, Len(s) - 1))
    ELSE s

\* str.lower(), character by character
LowerChar(c) ==
    CASE c = "A" -> "a" [] c = "B" -> "b" [] c = "C" -> "c" [] c = "D" -> "d" []
         c = "E" -> "e" [] c = "F" -> "f" [] c = "G" -> "g" [] c = "H" -> "h" []
         c = "I" -> "i" [] c = "J" -> "j" [] c = "K" -> "k" [] c = "L" -> "l" []
         c = "M" -> "m" [] c = "N" -> "n" [] c = "O" -> "o" [] c = "P" -> "p" []
         c = "Q" -> "q" [] c = "R" -> "r" [] c = "S" -> "s" [] c = "T" -> "t" []
         c = "U" -> "u" [] c = "V" -> "v" [] c = "W" -> "w" [] c = "X" -> "x" []
         c = "Y" -> "y" [] c = "Z" -> "z"
      [] OTHER -> c
lower(str) == [i \in 1..Len(str) |-> LowerChar(str[i])]
\* sub in s, for two strings
In(sub, s) ==
    \E i \in 0..(Len(s) - Len(sub)) : SubSeq(s, i + 1, i + Len(sub)) = sub

\* settings.has_jira / settings.has_confluence: all three fields are set
has_jira(s) ==
    /\ s.jira_url # NoneSeq
    /\ s.jira_username # None
    /\ s.jira_password # None
has_confluence(s) ==
    /\ s.confluence_url # NoneSeq
    /\ s.confluence_username # None
    /\ s.confluence_password # None

\* ---------------------------------------------------------------- transport
\* What requests.request can do with one call: raise a transport failure
\* (a RequestException), reject the URL before sending (InvalidURL and
\* MissingSchema are RequestException and ValueError at once), or return a
\* response.  A response has a status and a body; resp.json() on a body that
\* is not JSON raises requests' JSONDecodeError, which is a ValueError.
Statuses == {200, 404}
NoTransitions == <<>>
Resp(kind, status, json, transitions, results) ==
    [kind |-> kind, status |-> status, json |-> json,
     transitions |-> transitions, results |-> results]
NoResp == Resp("none", 0, "none", NoTransitions, 0)
Failures == {Resp("ConnectionError", 0, "none", NoTransitions, 0),
             Resp("InvalidURL", 0, "none", NoTransitions, 0)}
\* bodies: not JSON at all, JSON that is not an object, a JSON object
PlainBodies == {"not_json", "not_object", "object"}
Rejected == {Resp("response", 404, "not_json", NoTransitions, 0)}
Accepted == {Resp("response", 200, j, NoTransitions, 0) : j \in PlainBodies}
Outcomes == Failures \cup Rejected \cup Accepted

\* Response.ok
ok(resp) == resp.status < 400

\* exception classes of a failed requests.request call
ExcOf(out) ==
    CASE out.kind = "ConnectionError" -> {"RequestException"}
      [] out.kind = "InvalidURL" -> {"RequestException", "ValueError"}
      [] OTHER -> {}
\* exception classes of resp.json() and of the first .get on its value
JsonExc(resp) ==
    CASE resp.json = "not_json" -> {"RequestException", "ValueError"}
      [] resp.json = "not_object" -> {"AttributeError"}
      [] OTHER -> {}

\* one entry of the request log: what the transport was asked and answered
Request(method, url, username, password, params, json, out) ==
    [method |-> method, url |-> url, username |-> username,
     password |-> password, params |-> params, json |-> json, outcome |-> out]

\* ---------------------------------------------------------------- results
NoError == <<>>
Return(success, error, payload) ==
    [kind |-> "return", success |-> success, error |-> error,
     payload |-> payload]
Raise(exc) ==
    [kind |-> "raise", success |-> FALSE, error |-> <<exc>>, payload |-> <<>>]
Success(payload) == Return(TRUE, NoError, payload)
_err(msg) == Return(FALSE, msg, <<>>)
StatusText(status) == IF status = 404 THEN "404" ELSE "200"
BodyText(resp) == resp.json
_resp_err(label, resp) ==
    _err(<<label, " (", StatusText(resp.status), "): ", BodyText(resp)>>)

JIRA_NOT_CONFIGURED_MSG == <<"JIRA is not configured. Ask the user for their JIRA URL, username, and password, then call jira_configure(url, username, password) before retrying.">>
CONFLUENCE_NOT_CONFIGURED_MSG == <<"Confluence is not configured. Ask the user for their Confluence URL, username, and password, then call confluence_configure(url, username, password) before retrying.">>
ExcText(exc) == "transport failure"

\* the except clauses every tool function ends with: ValueError first, then
\* RequestException; any other exception leaves the function
Except(exc, not_configured_msg, prefix) ==
    IF "ValueError" \in exc THEN _err(not_configured_msg)
    ELSE IF "RequestException" \in exc THEN _err(<<prefix, ExcText(exc)>>)
    ELSE Raise(CHOOSE e \in exc : TRUE)
JiraExcept(exc) == Except(exc, JIRA_NOT_CONFIGURED_MSG, "JIRA request error: ")
ConfluenceExcept(exc) ==
    Except(exc, CONFLUENCE_NOT_CONFIGURED_MSG, "Confluence request error: ")

\* ---------------------------------------------------------------- jira
\* faulty variant of _jira_request: the configuration gate is missing
_jira_request_ungated(s, method, path, params, json, out) ==
    LET base_url == rstrip(s.jira_url)
        url == base_url \o <<path>>
    IN  [exc |-> ExcOf(out),
         sent |-> <<Request(method, url, s.jira_username,
                            s.jira_password, params, json, out)>>,
         resp |-> out]

\* _jira_request: the configuration gate, then the request
_jira_request(s, method, path, params, json, out) ==
    IF ~has_jira(s)
    THEN [exc |-> {"ValueError"}, sent |-> <<>>, resp |-> NoResp]
    ELSE LET base_url == rstrip(s.jira_url)
             url == base_url \o <<path>>
         IN  [exc |-> ExcOf(out),
              sent |-> <<Request(method, url, s.jira_username,
                                 s.jira_password, params, json, out)>>,
              resp |-> out]

ServerInfo == "/rest/api/2/serverInfo"

\* faulty variant of _detect_api_version: the cache is set only after a
\* probe that was answered with a success status
_detect_api_version_needs_ok(s, ver, pout) ==
    IF ver # None THEN [version |-> ver, sent |-> <<>>]
    ELSE LET r == _jira_request(s, "GET", ServerInfo, <<>>, <<>>, pout)
         IN  [version |-> IF r.exc = {} /\ r.resp.kind = "response"
                             /\ ok(r.resp)
                          THEN "2" ELSE None,
              sent |-> r.sent]

\* faulty variant of _detect_api_version: the cache is never set
_detect_api_version_uncached(s, ver, pout) ==
    LET r == _jira_request(s, "GET", ServerInfo, <<>>, <<>>, pout)
    IN  [version |-> None, sent |-> r.sent]

\* faulty variant of _detect_api_version: the probe is sent twice
_detect_api_version_twice(s, ver, pout) ==
    IF ver # None THEN [version |-> ver, sent |-> <<>>]
    ELSE LET r == _jira_request(s, "GET", ServerInfo, <<>>, <<>>, pout)
         IN  [version |-> "2", sent |-> r.sent \o r.sent]

\* _detect_api_version: the cached value, or one probe; whatever the probe
\* does (the gate's ValueError, a transport failure, any status, any body)
\* is caught or ignored, and the cache holds "2" afterwards
_detect_api_version(s, ver, pout) ==
    IF ver # None THEN [version |-> ver, sent |-> <<>>]
    ELSE LET r == _jira_request(s, "GET", ServerInfo, <<>>, <<>>, pout)
         IN  [version |-> "2", sent |-> r.sent]

\* the answers the environment can give to a request that _jira_request
\* would send: none when the gate stops the request
JiraAnswers(s, outs) == IF has_jira(s) THEN outs ELSE {NoResp}
ProbeAnswers(s, ver) ==
    IF ver = None /\ has_jira(s) THEN Outcomes ELSE {NoResp}

\* the shape shared by jira_search, jira_get_issue, jira_create_issue,
\* jira_add_comment: probe, one request, flatten the JSON body
JiraSimple(s, ver, method, path, label, pout, out) ==
    LET probe == _detect_api_version(s, ver, pout)
        r == _jira_request(s, method, path, <<>>, <<>>, out)
        result ==
            IF r.exc # {} THEN JiraExcept(r.exc)
            ELSE IF ~ok(r.resp) THEN _resp_err(label, r.resp)
            ELSE IF JsonExc(r.resp) # {} THEN JiraExcept(JsonExc(r.resp))
            ELSE Success(<<>>)
    IN  [result |-> result, requests |-> probe.sent \o r.sent,
         version |-> probe.version]

\* an invocation record: the tool function, its arguments, the requests it
\* handed to the transport (each with the answer it got), and how it ended
Invocation(op, args, requests, result) ==
    [op |-> op, args |-> args, requests |-> requests, result |-> result]
NoArgs == [none |-> TRUE]

JiraTools == {"jira_search", "jira_get_issue", "jira_create_issue",
              "jira_update_issue", "jira_add_comment",
              "jira_transition_issue"}

\* faulty variant of jira_configure: the cached API version survives
jira_configure_keeps_cache(url, username, password) ==
    /\ settings' = [settings EXCEPT !.jira_url = rstrip(url),
                                    !.jira_username = username,
                                    !.jira_password = password]
    /\ api_version' = api_version
    /\ probes' = 0
    /\ call' = Invocation("jira_configure",
                          [url |-> url, username |-> username,
                           password |-> password],
                          <<>>,
                          Success(<<"JIRA configured for ">> \o url))

jira_configure(url, username, password) ==
    /\ settings' = [settings EXCEPT !.jira_url = rstrip(url),
                                    !.jira_username = username,
                                    !.jira_password = password]
    /\ api_version' = None
    /\ probes' = 0
    /\ call' = Invocation("jira_configure",
                          [url |-> url, username |-> username,
                           password |-> password],
                          <<>>,
                          Success(<<"JIRA configured for ">> \o url))

\* the serverInfo requests among the requests of an invocation
ProbeCount(requests) ==
    Cardinality({i \in 1..Len(requests) :
                    /\ requests[i].method = "GET"
                    /\ requests[i].url[Len(requests[i].url)] = ServerInfo})
\* the common frame of a JIRA tool action: the invocation is recorded, the
\* cache takes the probe's value, the settings are only read
JiraDone(op, args, c) ==
    /\ call' = Invocation(op, args, c.requests, c.result)
    /\ api_version' = c.version
    /\ probes' = IF probes + ProbeCount(c.requests) <= MaxProbes
                 THEN probes + ProbeCount(c.requests) ELSE MaxProbes
    /\ UNCHANGED settings

jira_search ==
    \E pout \in ProbeAnswers(settings, api_version),
       out \in JiraAnswers(settings, Outcomes) :
        JiraDone("jira_search", NoArgs,
                 JiraSimple(settings, api_version, "POST",
                            "/rest/api/2/search", "JIRA search failed",
                            pout, out))

jira_get_issue ==
    \E pout \in ProbeAnswers(settings, api_version),
       out \in JiraAnswers(settings, Outcomes) :
        JiraDone("jira_get_issue", NoArgs,
                 JiraSimple(settings, api_version, "GET",
                            "/rest/api/2/issue/PROJ-1", "Failed to get issue",
                            pout, out))

jira_create_issue ==
    \E pout \in ProbeAnswers(settings, api_version),
       out \in JiraAnswers(settings, Outcomes) :
        JiraDone("jira_create_issue", NoArgs,
                 JiraSimple(settings, api_version, "POST",
                            "/rest/api/2/issue", "Failed to create issue",
                            pout, out))

jira_add_comment ==
    \E pout \in ProbeAnswers(settings, api_version),
       out \in JiraAnswers(settings, Outcomes) :
        JiraDone("jira_add_comment", NoArgs,
                 JiraSimple(settings, api_version, "POST",
                            "/rest/api/2/issue/PROJ-1/comment",
                            "Failed to add comment", pout, out))

\* ---- jira_update_issue
OptionalFields == {"summary", "description", "assignee", "labels", "priority"}
\* custom_fields: None, an empty dict, or a dict with one custom field
CustomFields == {"None", "empty", "one"}
UpdateArgs ==
    {[supplied |-> S, custom_fields |-> c] :
        S \in {T \in SUBSET OptionalFields : Cardinality(T) <= MaxSupplied},
        c \in CustomFields}
\* responses to a request whose body the code does not read
Unread == Failures \cup Rejected \cup
          {Resp("response", 200, "object", NoTransitions, 0)}

\* the keys of the fields dict built from the arguments
UpdateFields(args) ==
    args.supplied \cup
    (IF args.custom_fields = "one" THEN {"customfield_1"} ELSE {})

UpdateIssue(s, ver, args, pout, out) ==
    LET probe == _detect_api_version(s, ver, pout)
        fields == UpdateFields(args)
        r == _jira_request(s, "PUT", "/rest/api/2/issue/PROJ-1", <<>>,
                           <<>>, out)
    IN  IF fields = {}
        THEN [result |-> _err(<<"No fields to update.">>),
              requests |-> probe.sent, version |-> probe.version]
        ELSE [result |->
                  IF r.exc # {} THEN JiraExcept(r.exc)
                  ELSE IF ~ok(r.resp)
                       THEN _resp_err("Failed to update issue", r.resp)
                  ELSE Success(<<IssueKey>>),
              requests |-> probe.sent \o r.sent,
              version |-> probe.version]

jira_update_issue ==
    \E args \in UpdateArgs,
       pout \in ProbeAnswers(settings, api_version) :
      \E out \in IF UpdateFields(args) = {} THEN {NoResp}
                  ELSE JiraAnswers(settings, Unread) :
        JiraDone("jira_update_issue", args,
                 UpdateIssue(settings, api_version, args, pout, out))

\* ---- jira_transition_issue

SeqsUpTo(S, n) == UNION {[1..k -> S] : k \in 0..n}
\* transition names the remote workflow uses, and the names a caller asks for
Names == {<<"o", "k">>, <<"O", "k">>, <<"n", "o">>}
Targets == {<<"o", "k">>, <<"O", "K">>}
\* one transition of the remote listing: its "name" and whether it has an
\* "id"; the id of the i-th transition is i
Transitions == [name : Names, has_id : BOOLEAN]
Listings == SeqsUpTo(Transitions, MaxTransitions)
TransitionsPath == "/rest/api/2/issue/PROJ-1/transitions"
TransitionAnswers ==
    Failures \cup Rejected \cup
    {Resp("response", 200, j, NoTransitions, 0) :
        j \in {"not_json", "not_object"}} \cup
    {Resp("response", 200, "object", l, 0) : l \in Listings}

\* t.get("name", "")
NameOrEmpty(t) == IF t.name = NoneSeq THEN <<>> ELSE t.name
\* faulty variant of Matched: the last match instead of the first
Matched_last(transitions, transition_name) ==
    LET target == lower(transition_name)
        hits == {i \in 1..Len(transitions) :
                    lower(NameOrEmpty(transitions[i])) = target}
    IN  IF hits = {} THEN 0
        ELSE CHOOSE i \in hits : \A j \in hits : i >= j

\* the for loop: index of the first transition whose lowered name is the
\* lowered target, 0 when the loop ends without a break
Matched(transitions, transition_name) ==
    LET target == lower(transition_name)
        hits == {i \in 1..Len(transitions) :
                    lower(NameOrEmpty(transitions[i])) = target}
    IN  IF hits = {} THEN 0
        ELSE CHOOSE i \in hits : \A j \in hits : i <= j

\* repr of the list [t.get("name") for t in transitions], as tokens
RECURSIVE Items(_)
Items(transitions) ==
    IF transitions = <<>> THEN <<>>
    ELSE LET t == transitions[1]
             item == IF t.name = NoneSeq THEN <<"None">>
                     ELSE <<"'">> \o t.name \o <<"'">>
         IN  item \o (IF Len(transitions) > 1 THEN <<", ">> ELSE <<>>)
                  \o Items(Tail(transitions))
Available(transitions) == <<"[">> \o Items(transitions) \o <<"]">>

NotFound(transition_name, transitions) ==
    _err(<<"Transition '">> \o transition_name \o
         <<"' not found. Available: ">> \o Available(transitions))

\* after the listing was read: match, then the POST (r2, with the matched id)
Execute(probe, r, transition_name, m, r2) ==
    LET transitions == r.resp.transitions
    IN  IF m = 0
        THEN [result |-> NotFound(transition_name, transitions),
              requests |-> probe.sent \o r.sent, version |-> probe.version]
        ELSE IF ~transitions[m].has_id
        THEN [result |-> JiraExcept({"KeyError"}),
              requests |-> probe.sent \o r.sent, version |-> probe.version]
        ELSE [result |->
                  IF r2.exc # {} THEN JiraExcept(r2.exc)
                  ELSE IF ~ok(r2.resp)
                       THEN _resp_err("Failed to transition", r2.resp)
                  ELSE Success(<<IssueKey>> \o NameOrEmpty(transitions[m])),
              requests |-> probe.sent \o r.sent \o r2.sent,
              version |-> probe.version]

\* faulty variant of Listing: the status of the GET is not looked at
Listing_ignores_status(s, probe, r, transition_name, out2) ==
    IF r.exc # {} \/ (ok(r.resp) /\ JsonExc(r.resp) # {})
    THEN [result |->
              IF r.exc # {} THEN JiraExcept(r.exc)
              ELSE JiraExcept(JsonExc(r.resp)),
          requests |-> probe.sent \o r.sent, version |-> probe.version]
    ELSE LET r2 == _jira_request(s, "POST", TransitionsPath, <<>>, <<1>>,
                                 out2)
         IN  [result |-> IF r2.exc # {} THEN JiraExcept(r2.exc)
                         ELSE Success(<<IssueKey>>),
              requests |-> probe.sent \o r.sent \o r2.sent,
              version |-> probe.version]

\* the GET of the listing (r) and what follows it
Listing(s, probe, r, transition_name, out2) ==
    IF r.exc # {} \/ ~ok(r.resp) \/ JsonExc(r.resp) # {}
    THEN [result |->
              IF r.exc # {} THEN JiraExcept(r.exc)
              ELSE IF ~ok(r.resp)
                   THEN _resp_err("Failed to get transitions", r.resp)
              ELSE JiraExcept(JsonExc(r.resp)),
          requests |-> probe.sent \o r.sent, version |-> probe.version]
    ELSE Execute(probe, r, transition_name,
                 Matched(r.resp.transitions, transition_name),
                 _jira_request(s, "POST", TransitionsPath, <<>>,
                               <<Matched(r.resp.transitions,
                                         transition_name)>>, out2))

TransitionIssue(s, ver, transition_name, pout, out, out2) ==
    Listing(s, _detect_api_version(s, ver, pout),
            _jira_request(s, "GET", TransitionsPath, <<>>, <<>>, out),
            transition_name, out2)

\* the POST is answered only when the function gets as far as sending it
Sends(transitions, m) == m # 0 /\ transitions[m].has_id
PostAnswers(s, transition_name, out) ==
    IF /\ has_jira(s) /\ out.kind = "response" /\ ok(out)
       /\ out.json = "object"
       /\ Sends(out.transitions, Matched(out.transitions, transition_name))
    THEN Unread ELSE {NoResp}

jira_transition_issue ==
    \E transition_name \in Targets,
       pout \in ProbeAnswers(settings, api_version),
       out \in JiraAnswers(settings, TransitionAnswers) :
      \E out2 \in PostAnswers(settings, transition_name, out) :
        JiraDone("jira_transition_issue",
                 [transition_name |-> transition_name],
                 TransitionIssue(settings, api_version, transition_name,
                                 pout, out, out2))

\* ---------------------------------------------------------------- confluence
\* _confluence_request: the configuration gate, then the request
_confluence_request(s, method, path, params, out) ==
    IF ~has_confluence(s)
    THEN [exc |-> {"ValueError"}, sent |-> <<>>, resp |-> NoResp]
    ELSE LET base_url == rstrip(s.confluence_url)
             url == base_url \o <<path>>
         IN  [exc |-> ExcOf(out),
              sent |-> <<Request(method, url, s.confluence_username,
                                 s.confluence_password, params, <<>>, out)>>,
              resp |-> out]

ConfluenceAnswers(s, outs) == IF has_confluence(s) THEN outs ELSE {NoResp}

ConfluenceTools == {"confluence_search", "confluence_get_page",
                    "confluence_create_page", "confluence_update_page"}

confluence_configure(url, username, password) ==
    /\ settings' = [settings EXCEPT !.confluence_url = rstrip(url),
                                    !.confluence_username = username,
                                    !.confluence_password = password]
    /\ call' = Invocation("confluence_configure",
                          [url |-> url, username |-> username,
                           password |-> password],
                          <<>>,
                          Success(<<"Confluence configured for ">> \o url))
    /\ UNCHANGED <<api_version, probes>>

\* the common frame of a Confluence tool action
ConfluenceDone(op, args, c) ==
    /\ call' = Invocation(op, args, c.requests, c.result)
    /\ UNCHANGED <<settings, api_version, probes>>

\* confluence_search and confluence_create_page: one request, flatten
ConfluenceSimple(s, method, path, params, label, out) ==
    LET r == _confluence_request(s, method, path, params, out)
        result ==
            IF r.exc # {} THEN ConfluenceExcept(r.exc)
            ELSE IF ~ok(r.resp) THEN _resp_err(label, r.resp)
            ELSE IF JsonExc(r.resp) # {}
                 THEN ConfluenceExcept(JsonExc(r.resp))
            ELSE Success(<<>>)
    IN  [result |-> result, requests |-> r.sent]

\* an optional string argument: None, the empty string, or a value
Optional(v) == {None, "", v}
\* truth value of an optional string in an if
Truthy(x) == x # None /\ x # ""

\* ---- confluence_search
\* the pieces a query is made of: the operators and keywords, their case
\* variants, fragments that join into a keyword, free text
Atoms == {<<"=">>,
          <<"~">>,
          <<"A", "N", "D">>,
          <<"O", "R">>,
          <<"N", "O", "T">>,
          <<"I", "N">>,
          <<"t", "y", "p", "e">>,
          <<"s", "p", "a", "c", "e">>,
          <<"l", "a", "b", "e", "l">>,
          <<"a", "n", "d">>,
          <<"S", "p", "a", "c", "e">>,
          <<"s", "p">>,
          <<"a", "c", "e">>,
          <<"x">>,
          <<" ">>}
RECURSIVE Joined(_)
Joined(n) ==
    IF n = 0 THEN {<<>>}
    ELSE Joined(n - 1) \cup {q \o a : q \in Joined(n - 1), a \in Atoms}
Queries == Joined(MaxAtoms)
SearchArgs(queries) == [query : queries, space_key : Optional("DEV")]
cql_ops == <<<<"=">>,
            <<"~">>,
            <<"A", "N", "D">>,
            <<"O", "R">>,
            <<"N", "O", "T">>,
            <<"I", "N">>,
            <<"t", "y", "p", "e">>,
            <<"s", "p", "a", "c", "e">>,
            <<"l", "a", "b", "e", "l">>>>
\* faulty variant of Cql: the query is searched for "space" as written
Cql_as_written(query, space_key) ==
    LET scoped == IF Truthy(space_key) /\ ~In(<<"s", "p", "a", "c", "e">>, query)
                  THEN <<"space = \"", space_key, "\" AND (">> \o query
                           \o <<")">>
                  ELSE query
        text == <<"type = page AND text ~ \"">> \o query \o <<"\"">>
    IN  IF ~\E i \in 1..Len(cql_ops) : In(cql_ops[i], query)
        THEN IF Truthy(space_key)
             THEN <<"space = \"", space_key, "\" AND ">> \o text
             ELSE text
        ELSE scoped

\* the CQL expression built from the arguments, as the characters of the
\* query between the literal pieces of the f-strings
Cql(query, space_key) ==
    LET scoped == IF Truthy(space_key) /\ ~In(<<"s", "p", "a", "c", "e">>, lower(query))
                  THEN <<"space = \"", space_key, "\" AND (">> \o query
                           \o <<")">>
                  ELSE query
        text == <<"type = page AND text ~ \"">> \o query \o <<"\"">>
    IN  IF ~\E i \in 1..Len(cql_ops) : In(cql_ops[i], query)
        THEN IF Truthy(space_key)
             THEN <<"space = \"", space_key, "\" AND ">> \o text
             ELSE text
        ELSE scoped
Search(s, args, out) ==
    ConfluenceSimple(s, "GET", "/rest/api/content/search",
                     <<"cql">> \o Cql(args.query, args.space_key)
                         \o <<"limit", "expand">>,
                     "Confluence search failed", out)
\* the queries of a session that is not about searching
SessionQueries == {<<"x">>}
confluence_search ==
    \E args \in SearchArgs(SessionQueries) :
      \E out \in ConfluenceAnswers(settings, Outcomes) :
        ConfluenceDone("confluence_search", args, Search(settings, args, out))

confluence_create_page ==
    \E out \in ConfluenceAnswers(settings, Outcomes) :
        ConfluenceDone("confluence_create_page", NoArgs,
                       ConfluenceSimple(settings, "POST", "/rest/api/content",
                                        <<>>, "Failed to create page", out))

\* ---- _strip_html_tags
\* characters that \s matches and that str.strip() removes
Whitespace == {" ", "\n", "\t"}
\* the alternation p|div|h[1-6]|li|tr
BlockNames == {<<"p">>,
               <<"d", "i", "v">>,
               <<"h", "1">>,
               <<"h", "2">>,
               <<"h", "3">>,
               <<"h", "4">>,
               <<"h", "5">>,
               <<"h", "6">>,
               <<"l", "i">>,
               <<"t", "r">>}
\* the character at a position, "" past the end
At(s, i) == IF i >= 1 /\ i <= Len(s) THEN s[i] ELSE ""
\* number of consecutive characters of a set from a position on
RECURSIVE Run(_, _, _)
Run(chars, s, i) ==
    IF At(s, i) \in chars THEN 1 + Run(chars, s, i + 1) ELSE 0
\* position of the first ">" at or after a position, 0 if there is none
RECURSIVE FirstGt(_, _)
FirstGt(s, i) ==
    IF i > Len(s) THEN 0
    ELSE IF s[i] = ">" THEN i
    ELSE FirstGt(s, i + 1)
\* a block name starts at a position, ignoring case
NameAt(s, i) ==
    {n \in BlockNames :
        /\ i + Len(n) - 1 <= Len(s)
        /\ lower(SubSeq(s, i, i + Len(n) - 1)) = n}
\* length of the match of a pattern that starts at a position, 0 if the
\* pattern does not match there
MatchLen(pattern, s, i) ==
    CASE pattern = "<br\\s*/?>" ->
            IF At(s, i) = "<" /\ LowerChar(At(s, i + 1)) = "b"
               /\ LowerChar(At(s, i + 2)) = "r"
            THEN LET j == i + 3 + Run(Whitespace, s, i + 3)
                     k == IF At(s, j) = "/" THEN j + 1 ELSE j
                 IN  IF At(s, k) = ">" THEN k - i + 1 ELSE 0
            ELSE 0
      [] pattern = "</(p|div|h[1-6]|li|tr)>" ->
            IF At(s, i) = "<" /\ At(s, i + 1) = "/"
               /\ \E n \in NameAt(s, i + 2) : At(s, i + 2 + Len(n)) = ">"
            THEN LET n == CHOOSE n \in NameAt(s, i + 2) :
                              At(s, i + 2 + Len(n)) = ">"
                 IN  Len(n) + 3
            ELSE 0
      [] pattern = "<(p|div|h[1-6]|li|tr)[^>]*>" ->
            IF At(s, i) = "<" /\ NameAt(s, i + 1) # {}
               /\ FirstGt(s, i + 1) # 0
            THEN FirstGt(s, i + 1) - i + 1
            ELSE 0
      [] pattern = "<[^>]+>" ->
            IF At(s, i) = "<" /\ i + 1 <= Len(s) /\ s[i + 1] # ">"
               /\ FirstGt(s, i + 2) # 0
            THEN FirstGt(s, i + 2) - i + 1
            ELSE 0
      [] pattern = "\\n{3,}" ->
            IF Run({"\n"}, s, i) >= 3 THEN Run({"\n"}, s, i) ELSE 0
\* re.sub(pattern, repl, s): the matches from left to right, none
\* overlapping another, each replaced
RECURSIVE Sub(_, _, _, _)
Sub(pattern, repl, s, i) ==
    IF i > Len(s) THEN <<>>
    ELSE LET n == MatchLen(pattern, s, i)
         IN  IF n > 0 THEN repl \o Sub(pattern, repl, s, i + n)
             ELSE <<s[i]>> \o Sub(pattern, repl, s, i + 1)
\* str.strip()
strip(s) ==
    LET kept == {i \in 1..Len(s) : s[i] \notin Whitespace}
    IN  IF kept = {} THEN <<>>
        ELSE SubSeq(s, CHOOSE i \in kept : \A j \in kept : i <= j,
                       CHOOSE i \in kept : \A j \in kept : i >= j)
\* faulty variant of _strip_html_tags: the text is stripped first, not last
_strip_html_tags_strips_first(html) ==
    LET br == Sub("<br\\s*/?>", <<"\n">>, strip(html), 1)
        closed == Sub("</(p|div|h[1-6]|li|tr)>", <<"\n">>, br, 1)
        opened == Sub("<(p|div|h[1-6]|li|tr)[^>]*>", <<>>, closed, 1)
        plain == Sub("<[^>]+>", <<>>, opened, 1)
    IN  Sub("\\n{3,}", <<"\n", "\n">>, plain, 1)

_strip_html_tags(html) ==
    LET br == Sub("<br\\s*/?>", <<"\n">>, html, 1)
        closed == Sub("</(p|div|h[1-6]|li|tr)>", <<"\n">>, br, 1)
        opened == Sub("<(p|div|h[1-6]|li|tr)[^>]*>", <<>>, closed, 1)
        plain == Sub("<[^>]+>", <<>>, opened, 1)
        text == Sub("\\n{3,}", <<"\n", "\n">>, plain, 1)
    IN  strip(text)

\* the pieces an HTML text is made of, and the texts of up to MaxPieces
\* pieces; the text of two paragraphs besides
Pieces == {<<"<">>,
           <<">">>,
           <<"/">>,
           <<"p">>,
           <<"\n">>,
           <<" ">>,
           <<"x">>,
           <<"<", "p", ">">>,
           <<"<", "/", "p", ">">>,
           <<"<", "b", "r", "/", ">">>,
           <<"<", "/", "D", "I", "V", ">">>,
           <<"<", "i", ">">>}
RECURSIVE Pieced(_)
Pieced(n) ==
    IF n = 0 THEN {<<>>}
    ELSE Pieced(n - 1) \cup {h \o a : h \in Pieced(n - 1), a \in Pieces}
TwoParagraphs ==
    <<"<", "p", ">", "H", "e",
      "l", "l", "o", "<", "/", "p", ">", "<", "p", ">", "W", "o", "r", "l", "d", "<", "/", "p", ">">>
Htmls == Pieced(MaxPieces) \cup {TwoParagraphs}
\* _strip_html_tags applied to a text
StripHtml ==
    /\ call.op = "start"
    /\ \E html \in Htmls :
           call' = Invocation("_strip_html_tags", [html |-> html], <<>>,
                              Success(_strip_html_tags(html)))
    /\ UNCHANGED <<settings, api_version, probes>>
\* _strip_html_tags applied to the text it returned
StripAgain ==
    /\ call.op = "_strip_html_tags"
    /\ call' = Invocation("_strip_html_tags",
                          [html |-> call.result.payload], <<>>,
                          Success(_strip_html_tags(call.result.payload)))
    /\ UNCHANGED <<settings, api_version, probes>>

\* ---- confluence_get_page
GetPageArgs ==
    [page_id : Optional(PageId), title : Optional("T"),
     space_key : Optional("DEV")]
ById == "/rest/api/content/123"
ByTitle == "/rest/api/content"
\* a JSON object body of the title listing carries 0 or 1 results
Listed == {Resp("response", 200, "object", NoTransitions, n) : n \in 0..1}
GetPageAnswers(args) ==
    IF Truthy(args.page_id) THEN Outcomes
    ELSE IF Truthy(args.title) /\ Truthy(args.space_key)
         THEN Outcomes \cup Listed
    ELSE {NoResp}

\* faulty variant of GetPage: title and space_key are looked at before
\* page_id
GetPage_title_first(s, args, out) ==
    LET by_id == _confluence_request(s, "GET", ById, <<"expand">>, out)
        by_title == _confluence_request(
                        s, "GET", ByTitle,
                        <<"title", "spaceKey", "expand", "limit=1">>, out)
        after(r) ==
            IF r.exc # {} THEN ConfluenceExcept(r.exc)
            ELSE IF ~ok(r.resp) THEN _resp_err("Failed to get page", r.resp)
            ELSE IF JsonExc(r.resp) # {}
                 THEN ConfluenceExcept(JsonExc(r.resp))
            ELSE Success(<<>>)
    IN  IF Truthy(args.title) /\ Truthy(args.space_key)
        THEN [result |-> after(by_title), requests |-> by_title.sent]
        ELSE IF Truthy(args.page_id)
             THEN [result |-> after(by_id), requests |-> by_id.sent]
        ELSE [result |-> _err(<<"Provide either page_id or both title and space_key.">>),
              requests |-> <<>>]

GetPage(s, args, out) ==
    LET by_id == _confluence_request(s, "GET", ById, <<"expand">>, out)
        by_title == _confluence_request(
                        s, "GET", ByTitle,
                        <<"title", "spaceKey", "expand", "limit=1">>, out)
        after(r) ==
            IF r.exc # {} THEN ConfluenceExcept(r.exc)
            ELSE IF ~ok(r.resp) THEN _resp_err("Failed to get page", r.resp)
            ELSE IF JsonExc(r.resp) # {}
                 THEN ConfluenceExcept(JsonExc(r.resp))
            ELSE IF ~Truthy(args.page_id) /\ r.resp.results = 0
                 THEN _err(<<"No page found with title '", args.title,
                            "' in space '", args.space_key, "'.">>)
            ELSE Success(<<>>)
    IN  IF Truthy(args.page_id)
        THEN [result |-> after(by_id), requests |-> by_id.sent]
        ELSE IF Truthy(args.title) /\ Truthy(args.space_key)
             THEN [result |-> after(by_title), requests |-> by_title.sent]
        ELSE [result |-> _err(<<"Provide either page_id or both title and space_key.">>),
              requests |-> <<>>]

confluence_get_page ==
    \E args \in GetPageArgs :
      \E out \in ConfluenceAnswers(settings, GetPageAnswers(args)) :
        ConfluenceDone("confluence_get_page", args,
                       GetPage(settings, args, out))

\* ---- confluence_update_page
\* faulty variant of UpdatePage: the PUT follows the GET whatever its status
UpdatePage_ignores_status(s, out, out2) ==
    LET get_resp == _confluence_request(s, "GET", ById, <<"expand">>, out)
        put == _confluence_request(s, "PUT", ById, <<>>, out2)
    IN  IF get_resp.exc # {}
        THEN [result |-> ConfluenceExcept(get_resp.exc),
              requests |-> get_resp.sent]
        ELSE [result |->
                  IF put.exc # {} THEN ConfluenceExcept(put.exc)
                  ELSE IF ~ok(put.resp)
                       THEN _resp_err("Failed to update page", put.resp)
                  ELSE Success(<<>>),
              requests |-> get_resp.sent \o put.sent]

UpdatePage(s, out, out2) ==
    LET get_resp == _confluence_request(s, "GET", ById, <<"expand">>, out)
        put == _confluence_request(s, "PUT", ById, <<>>, out2)
        stop(result) == [result |-> result, requests |-> get_resp.sent]
    IN  IF get_resp.exc # {} THEN stop(ConfluenceExcept(get_resp.exc))
        ELSE IF ~ok(get_resp.resp)
             THEN stop(_resp_err("Failed to get page version",
                                 get_resp.resp))
        ELSE IF JsonExc(get_resp.resp) # {}
             THEN stop(ConfluenceExcept(JsonExc(get_resp.resp)))
        ELSE [result |->
                  IF put.exc # {} THEN ConfluenceExcept(put.exc)
                  ELSE IF ~ok(put.resp)
                       THEN _resp_err("Failed to update page", put.resp)
                  ELSE IF JsonExc(put.resp) # {}
                       THEN ConfluenceExcept(JsonExc(put.resp))
                  ELSE Success(<<>>),
              requests |-> get_resp.sent \o put.sent]

\* the PUT is answered only when the function gets as far as sending it
PutAnswers(s, out) ==
    IF has_confluence(s) /\ out.kind = "response" /\ ok(out)
       /\ out.json = "object"
    THEN Outcomes ELSE {NoResp}

confluence_update_page ==
    \E out \in ConfluenceAnswers(settings, Outcomes) :
      \E out2 \in PutAnswers(settings, out) :
        ConfluenceDone("confluence_update_page", NoArgs,
                       UpdatePage(settings, out, out2))

\* ---------------------------------------------------------------- machine
\* the settings a process starts with: every field unset
Unconfigured ==
    [jira_url |-> NoneSeq, jira_username |-> None, jira_password |-> None,
     confluence_url |-> NoneSeq, confluence_username |-> None,
     confluence_password |-> None]

Init ==
    /\ settings = Unconfigured
    /\ api_version = None
    /\ call = Invocation("start", NoArgs, <<>>, Success(<<>>))
    /\ probes = 0

NextJira ==
    \/ \E url \in Urls, username \in Users, password \in Passwords :
            jira_configure(url, username, password)
    \/ jira_search
    \/ jira_get_issue
    \/ jira_create_issue
    \/ jira_update_issue
    \/ jira_add_comment
    \/ jira_transition_issue
NextConfluence ==
    \/ \E url \in Urls, username \in Users, password \in Passwords :
            confluence_configure(url, username, password)
    \/ confluence_search
    \/ confluence_get_page
    \/ confluence_create_page
    \/ confluence_update_page
JiraOps == JiraTools \cup {"jira_configure"}
ConfluenceOps == ConfluenceTools \cup {"confluence_configure"}
\* The two modules share no state: a JIRA function reads and writes the
\* jira_* settings and _api_version only, a Confluence function the
\* confluence_* settings only.  A behaviour stays with the module its first
\* call picked.
Next ==
    \/ call.op \notin ConfluenceOps /\ NextJira
    \/ call.op \notin JiraOps /\ NextConfluence

Spec == Init /\ [][Next]_vars
\* sessions of one module alone
SpecJira == Init /\ [][NextJira]_vars
SpecConfluence == Init /\ [][NextConfluence]_vars

\* sessions about the CQL expression: a search, over every query, of a
\* service as it starts or as a confluence_configure call left it
SearchAnyQuery ==
    /\ call.op \in {"start", "confluence_configure"}
    /\ \E args \in SearchArgs(Queries) :
         \E out \in ConfluenceAnswers(settings, Outcomes) :
           ConfluenceDone("confluence_search", args,
                          Search(settings, args, out))
NextCql ==
    \/ \E url \in Urls, username \in Users, password \in Passwords :
            confluence_configure(url, username, password)
    \/ SearchAnyQuery
SpecCql == Init /\ [][NextCql]_vars

\* sessions about the HTML normalizer
NextHtml == StripHtml \/ StripAgain
SpecHtml == Init /\ [][NextHtml]_vars

\* ---------------------------------------------------------------- claims
\* vocabulary of the claims
Path(req) == req.url[Len(req.url)]
IsProbe(req) == req.method = "GET" /\ Path(req) = ServerInfo
NotProbe(req) == ~IsProbe(req)
\* the requests of an invocation other than the API-version probe
Own(reqs) == SelectSeq(reqs, NotProbe)
Probes(reqs) == SelectSeq(reqs, IsProbe)
Tools == JiraTools \cup ConfluenceTools
\* an optional string argument that is absent (None or empty)
Absent(x) == x = None \/ x = ""
\* jira_update_issue was given no field at all
NoFieldSupplied(args) ==
    args.supplied = {} /\ args.custom_fields \in {"None", "empty"}
\* confluence_get_page was given neither a page_id nor title and space_key
NoLookup(args) ==
    Absent(args.page_id) /\ (Absent(args.title) \/ Absent(args.space_key))
NoFieldsError == Return(FALSE, <<"No fields to update.">>, <<>>)
IsValidationError(result) ==
    /\ result.kind = "return" /\ ~result.success
    /\ result.error = <<"Provide either page_id or both title and space_key.">>
JiraNotConfigured == Return(FALSE, JIRA_NOT_CONFIGURED_MSG, <<>>)
ConfluenceNotConfigured == Return(FALSE, CONFLUENCE_NOT_CONFIGURED_MSG, <<>>)
\* the answer to a request was a response with a success status
Succeeded(req) == req.outcome.kind = "response" /\ req.outcome.status = 200
TransportFailed(req) == req.outcome.kind = "ConnectionError"
StatusFailed(req) == req.outcome.kind = "response" /\ req.outcome.status = 404

\* C1 as stated: while a service is unconfigured, every tool operation of it,
\* whatever its arguments, returns the service's NotConfigured error and hands
\* no request to the transport.
C1_Original ==
    /\ call.op \in JiraTools /\ ~has_jira(settings)
        => call.result = JiraNotConfigured /\ call.requests = <<>>
    /\ call.op \in ConfluenceTools /\ ~has_confluence(settings)
        => call.result = ConfluenceNotConfigured /\ call.requests = <<>>

\* C1 amended: while a service is unconfigured, no tool operation of it hands
\* a request to the transport, and each returns the service's NotConfigured
\* error, except the two calls that fail validation first:
\* jira_update_issue with no field returns "No fields to update." and
\* confluence_get_page with no usable lookup returns its validation error.
C1_Unconfigured ==
    /\ call.op \in JiraTools /\ ~has_jira(settings)
        => /\ call.requests = <<>>
           /\ call.result =
                  IF call.op = "jira_update_issue" /\ NoFieldSupplied(call.args)
                  THEN NoFieldsError ELSE JiraNotConfigured
    /\ call.op \in ConfluenceTools /\ ~has_confluence(settings)
        => /\ call.requests = <<>>
           /\ IF call.op = "confluence_get_page" /\ NoLookup(call.args)
              THEN IsValidationError(call.result)
              ELSE call.result = ConfluenceNotConfigured
C1_Witness ==
    /\ call.op = "jira_transition_issue"
    /\ ~has_jira(settings)
    /\ call.result = JiraNotConfigured
    /\ call.requests = <<>>

\* C2: jira_update_issue with no field supplied returns "No fields to
\* update." and hands no request at all to the transport, in every state of
\* the settings and of the API-version cache.
C2_NoFieldsNoRequest ==
    call.op = "jira_update_issue" /\ NoFieldSupplied(call.args)
        => call.result = NoFieldsError /\ call.requests = <<>>

\* C3: jira_configure leaves the API-version cache unset, and the JIRA tool
\* operation that follows it sends the serverInfo probe, once, before any
\* request of its own.
C3_ReconfigureReprobes ==
    [][/\ call'.op = "jira_configure" => api_version' = None
       /\ call.op = "jira_configure" /\ call'.op \in JiraTools
           => /\ Len(call'.requests) >= 1
              /\ IsProbe(call'.requests[1])
              /\ \A i \in 2..Len(call'.requests) :
                     ~IsProbe(call'.requests[i])]_vars
\* a JIRA operation whose log starts with the probe: the cache was unset, so
\* no JIRA operation ran since the jira_configure call that set these values
C3_Witness ==
    /\ call.op = "jira_add_comment"
    /\ Len(call.requests) = 2
    /\ IsProbe(call.requests[1])
    /\ call.requests[2].method = "POST"
    /\ api_version = "2"

\* C4: confluence_update_page sends the PUT only after a version-fetch GET
\* that was answered with a success status; when the GET fails (service
\* unconfigured, transport failure, non-success status) the failure is the
\* result and nothing follows the GET.
C4_UpdateStopsOnGetFailure ==
    call.op = "confluence_update_page" =>
        LET reqs == call.requests
        IN  /\ Len(reqs) <= 2
            /\ \A i \in 1..Len(reqs) :
                   reqs[i].method = "PUT"
                       => i = 2 /\ reqs[1].method = "GET" /\ Succeeded(reqs[1])
            /\ ~has_confluence(settings)
                   => reqs = <<>> /\ call.result = ConfluenceNotConfigured
            /\ Len(reqs) >= 1 /\ TransportFailed(reqs[1])
                   => /\ Len(reqs) = 1
                      /\ ~call.result.success
                      /\ call.result.error[1] = "Confluence request error: "
            /\ Len(reqs) >= 1 /\ StatusFailed(reqs[1])
                   => /\ Len(reqs) = 1
                      /\ ~call.result.success
                      /\ call.result.error =
                             <<"Failed to get page version", " (", "404",
                               "): ", reqs[1].outcome.json>>
C4_Witness ==
    /\ call.op = "confluence_update_page"
    /\ Len(call.requests) = 1
    /\ StatusFailed(call.requests[1])
    /\ ~call.result.success
    /\ call.result.error[1] = "Failed to get page version"

\* C5 vocabulary: equality of two names ignoring case, and the Python list
\* display of the first n names of a listing
CasePairs == {{"o", "O"}, {"k", "K"}, {"n", "N"}}
SameIgnoringCase(a, b) ==
    /\ Len(a) = Len(b)
    /\ \A i \in 1..Len(a) : a[i] = b[i] \/ {a[i], b[i]} \in CasePairs
RECURSIVE Shown(_, _)
Shown(listing, n) ==
    IF n = 0 THEN <<>>
    ELSE Shown(listing, n - 1) \o (IF n > 1 THEN <<", ">> ELSE <<>>)
             \o <<"'">> \o listing[n].name \o <<"'">>

C6_TransitionSteps ==
    call.op = "jira_transition_issue" =>
        LET own == Own(call.requests)
            n == Len(own)
        IN  /\ n <= 2
            /\ \A i \in 2..Len(call.requests) : ~IsProbe(call.requests[i])
            /\ n >= 1 => own[1].method = "GET" /\ Path(own[1]) = TransitionsPath
            /\ n = 2 => /\ own[2].method = "POST"
                        /\ Path(own[2]) = TransitionsPath
                        /\ Succeeded(own[1])
            /\ n >= 1 /\ TransportFailed(own[1])
                   => /\ n = 1
                      /\ ~call.result.success
                      /\ call.result.error[1] = "JIRA request error: "
            /\ n >= 1 /\ StatusFailed(own[1])
                   => /\ n = 1
                      /\ ~call.result.success
                      /\ call.result.error =
                             <<"Failed to get transitions", " (", "404",
                               "): ", own[1].outcome.json>>
            /\ n = 2 /\ TransportFailed(own[2])
                   => /\ ~call.result.success
                      /\ call.result.error[1] = "JIRA request error: "
            /\ n = 2 /\ StatusFailed(own[2])
                   => /\ ~call.result.success
                      /\ call.result.error =
                             <<"Failed to transition", " (", "404", "): ",
                               own[2].outcome.json>>
C6_Witness ==
    /\ call.op = "jira_transition_issue"
    /\ Len(Own(call.requests)) = 2
    /\ StatusFailed(Own(call.requests)[2])
    /\ call.result.error[1] = "Failed to transition"

\* C7: no tool operation raises: whatever the input and the remote answer,
\* it returns {success: true, ...} or {success: false, error: ...}.
C7_NeverRaises ==
    call.op \in Tools => call.result.kind = "return"

\* C8 vocabulary: a URL without its trailing slashes, the API paths
Kept(url) ==
    LET ends == {i \in 0..Len(url) : i = 0 \/ url[i] # "/"}
    IN  CHOOSE k \in ends : \A j \in ends : j <= k
WithoutTrailingSlash(url) == SubSeq(url, 1, Kept(url))
JiraPaths == {ServerInfo, "/rest/api/2/search", "/rest/api/2/issue",
              "/rest/api/2/issue/PROJ-1", "/rest/api/2/issue/PROJ-1/comment",
              TransitionsPath}
ConfluencePaths == {"/rest/api/content/search", "/rest/api/content",
                    "/rest/api/content/123"}
UsesConfig(req, args, paths) ==
    /\ \E path \in paths : req.url = WithoutTrailingSlash(args.url) \o <<path>>
    /\ req.username = args.username
    /\ req.password = args.password

\* C8: configure reports success and sends nothing; every request of the
\* tool operation called right after configure(url, u, p) goes to url
\* without its trailing slash followed by an API path, with Basic auth u, p.
C8_ConfigureThenUse ==
    [][/\ call'.op \in {"jira_configure", "confluence_configure"}
           => /\ call'.result.kind = "return"
              /\ call'.result.success
              /\ call'.requests = <<>>
       /\ call.op = "jira_configure" /\ call'.op \in JiraTools
           => \A i \in 1..Len(call'.requests) :
                  UsesConfig(call'.requests[i], call.args, JiraPaths)
       /\ call.op = "confluence_configure" /\ call'.op \in ConfluenceTools
           => \A i \in 1..Len(call'.requests) :
                  UsesConfig(call'.requests[i], call.args, ConfluencePaths)
      ]_vars
\* a request of the first JIRA operation after a jira_configure (its log
\* starts with the probe) that carries the configured values
C8_Witness ==
    /\ call.op = "jira_search"
    /\ Len(call.requests) = 2
    /\ IsProbe(call.requests[1])
    /\ call.requests[2].url = <<"b", "/rest/api/2/search">>
    /\ call.requests[2].username = "u2"
    /\ call.requests[2].password = "p2"

\* C9 as stated: confluence_get_page with no usable lookup returns a
\* validation error and sends nothing; with a page_id it sends exactly one GET
\* by id; with only title and space_key exactly one limit-1 listing GET.
C9_Original ==
    call.op = "confluence_get_page" =>
        LET a == call.args
            reqs == call.requests
        IN  /\ NoLookup(a) => IsValidationError(call.result) /\ reqs = <<>>
            /\ ~Absent(a.page_id)
                   => /\ Len(reqs) = 1
                      /\ reqs[1].method = "GET"
                      /\ Path(reqs[1]) = ById
            /\ Absent(a.page_id) /\ ~Absent(a.title) /\ ~Absent(a.space_key)
                   => /\ Len(reqs) = 1
                      /\ reqs[1].method = "GET"
                      /\ Path(reqs[1]) = ByTitle
                      /\ reqs[1].params[Len(reqs[1].params)] = "limit=1"

\* C9 amended: the same, with the two GETs sent while Confluence is
\* configured; while it is unconfigured confluence_get_page sends nothing.
C9_GetPageLookup ==
    call.op = "confluence_get_page" =>
        LET a == call.args
            reqs == call.requests
        IN  /\ NoLookup(a) => IsValidationError(call.result) /\ reqs = <<>>
            /\ ~has_confluence(settings) => reqs = <<>>
            /\ has_confluence(settings) /\ ~Absent(a.page_id)
                   => /\ Len(reqs) = 1
                      /\ reqs[1].method = "GET"
                      /\ Path(reqs[1]) = ById
            /\ has_confluence(settings) /\ Absent(a.page_id)
                /\ ~Absent(a.title) /\ ~Absent(a.space_key)
                   => /\ Len(reqs) = 1
                      /\ reqs[1].method = "GET"
                      /\ Path(reqs[1]) = ByTitle
                      /\ reqs[1].params[Len(reqs[1].params)] = "limit=1"
C9_Witness ==
    /\ call.op = "confluence_get_page"
    /\ call.args = [page_id |-> PageId, title |-> "T", space_key |-> "DEV"]
    /\ Len(call.requests) = 1
    /\ Path(call.requests[1]) = ById

\* the request count the overview gives a tool operation
Limit(op) ==
    IF op \in {"confluence_update_page", "jira_transition_issue"} THEN 2
    ELSE 1

\* C10 as stated: counting the API-version probe, no tool invocation sends
\* more than one request, or two for update_page and transition_issue.
C10_Original ==
    call.op \in Tools => Len(call.requests) <= Limit(call.op)

\* C10 amended: no tool invocation sends more than one request of its own
\* (two for update_page and transition_issue); a JIRA invocation sends in
\* addition at most one API-version probe, a Confluence invocation none.
C10_RequestBudget ==
    call.op \in Tools =>
        /\ Len(Own(call.requests)) <= Limit(call.op)
        /\ Len(Probes(call.requests))
               <= (IF call.op \in JiraTools THEN 1 ELSE 0)
C10_Witness ==
    /\ call.op = "jira_transition_issue"
    /\ Len(call.requests) = 3
    /\ IsProbe(call.requests[1])
    /\ call.requests[2].method = "GET"
    /\ call.requests[3].method = "POST"

\* C11 vocabulary: the operators and keywords a query may contain, a query
\* that mentions space in any case, a space_key that was given, and the CQL
\* expression a search request carries
Recognized == {<<"=">>,
               <<"~">>,
               <<"A", "N", "D">>,
               <<"O", "R">>,
               <<"N", "O", "T">>,
               <<"I", "N">>,
               <<"t", "y", "p", "e">>,
               <<"s", "p", "a", "c", "e">>,
               <<"l", "a", "b", "e", "l">>}
HasOperator(query) ==
    \E i \in 1..Len(query), j \in 1..Len(query) :
        SubSeq(query, i, j) \in Recognized
ReferencesSpace(query) ==
    \E i \in 1..Len(query) :
        /\ i + 4 <= Len(query)
        /\ query[i] \in {"s", "S"} /\ query[i + 1] \in {"p", "P"}
        /\ query[i + 2] \in {"a", "A"} /\ query[i + 3] \in {"c", "C"}
        /\ query[i + 4] \in {"e", "E"}
Given(space_key) == ~Absent(space_key)
SentCql(req) == SubSeq(req.params, 2, Len(req.params) - 2)

\* C11: the CQL expression of a confluence_search request is, for a query
\* without operator or keyword, type = page AND text ~ "<query>", with
\* space = "<key>" AND in front when a space_key is given; for a query with
\* an operator or keyword it is the query as it is, AND-ed with a
\* space = "<key>" clause exactly when a space_key is given and the query
\* does not mention space.
C11_CqlBuilt ==
    call.op = "confluence_search" /\ Len(call.requests) = 1 =>
        LET query == call.args.query
            key == call.args.space_key
            cql == SentCql(call.requests[1])
            text == <<"type = page AND text ~ \"">> \o query \o <<"\"">>
        IN  /\ call.requests[1].params[1] = "cql"
            /\ ~HasOperator(query) /\ ~Given(key) => cql = text
            /\ ~HasOperator(query) /\ Given(key)
                   => cql = <<"space = \"", key, "\" AND ">> \o text
            /\ HasOperator(query) /\ Given(key) /\ ~ReferencesSpace(query)
                   => cql = <<"space = \"", key, "\" AND (">> \o query
                                \o <<")">>
            /\ HasOperator(query) /\ (~Given(key) \/ ReferencesSpace(query))
                   => cql = query
\* a free-text query (a lower-case "and" is no operator) scoped to a space
C11_Witness ==
    /\ call.op = "confluence_search"
    /\ Len(call.requests) = 1
    /\ call.args.space_key = "DEV"
    /\ call.args.query = <<"a", "n", "d">>
    /\ SentCql(call.requests[1]) =
           <<"space = \"", "DEV", "\" AND ", "type = page AND text ~ \"">>
               \o <<"a", "n", "d">> \o <<"\"">>

\* C12: _strip_html_tags applied to a text it returned returns the same
\* text; applied to <p>Hello</p><p>World</p> it returns the two words with
\* one newline between them and nothing before or after.
C12_StripIdempotent ==
    [][/\ call.op = "_strip_html_tags" /\ call'.op = "_strip_html_tags"
           => call'.result.payload = call.result.payload
       /\ call'.op = "_strip_html_tags" /\ call'.args.html = TwoParagraphs
           => call'.result.payload =
                  <<"H", "e", "l", "l", "o", "\n", "W", "o", "r", "l", "d">>
      ]_vars
\* an application to a text that _strip_html_tags returns (for x</p>p, say)
C12_Witness ==
    /\ call.op = "_strip_html_tags"
    /\ call.args.html = <<"x", "\n", "p">>
    /\ call.result.payload = call.args.html

\* C13: the API-version cache is unset or "2", and "2" after every JIRA
\* tool operation whatever the probe met (service unconfigured, transport
\* failure, non-success status, malformed body); the operation that sent
\* the probe goes on to its own request, and its result is the one its own
\* request gives, never the probe's failure.
C13_ProbeNeverFails ==
    /\ api_version \in {None, "2"}
    /\ call.op \in JiraTools =>
           LET own == Own(call.requests)
           IN  /\ api_version = "2"
               /\ has_jira(settings)
                   /\ ~(call.op = "jira_update_issue"
                        /\ NoFieldSupplied(call.args))
                      => Len(own) >= 1
               /\ call.result.kind = "raise"
                      => Len(own) >= 1 /\ Succeeded(own[Len(own)])
               /\ Len(own) = 1 /\ Succeeded(own[1])
                   /\ own[1].outcome.json = "object"
                   /\ call.op # "jira_transition_issue"
                      => call.result.kind = "return" /\ call.result.success
               /\ Len(own) >= 1 /\ TransportFailed(own[Len(own)])
                      => /\ ~call.result.success
                         /\ call.result.error[1] = "JIRA request error: "
\* the probe met a transport failure and the search that sent it succeeded
C13_Witness ==
    /\ call.op = "jira_search"
    /\ Len(call.requests) = 2
    /\ IsProbe(call.requests[1])
    /\ TransportFailed(call.requests[1])
    /\ Succeeded(call.requests[2])
    /\ call.result.success
    /\ api_version = "2"

\* C14: a tool operation of a configured service never returns the
\* service's NotConfigured error, whatever the remote call does.
C14_NotConfiguredOnlyUnconfigured ==
    /\ call.op \in JiraTools /\ has_jira(settings)
           => call.result # JiraNotConfigured
    /\ call.op \in ConfluenceTools /\ has_confluence(settings)
           => call.result # ConfluenceNotConfigured

\* C15: between two consecutive jira_configure calls, and before the first,
\* at most one serverInfo probe is sent, and the probe comes before every
\* other request of the operation that sends it.
C15_ProbeOncePerConfigure ==
    /\ probes <= 1
    /\ call.op \in JiraTools =>
           \A i \in 2..Len(call.requests) : ~IsProbe(call.requests[i])
\* an operation with requests of its own and no probe, after the one probe
\* that followed the last jira_configure
C15_Witness ==
    /\ probes = 1
    /\ call.op = "jira_add_comment"
    /\ Len(call.requests) = 1
    /\ ~IsProbe(call.requests[1])

====
